---- MODULE Spec2Model ----
(***************************************************************************)
(* restposten-mongodb: a thin layer over the node-mongodb-native driver.   *)
(* The model follows the complete module (the file with connect, DB,       *)
(* Collection, fixID, find, findOne, save, update, delete, count).         *)
(*                                                                         *)
(* JavaScript values are tagged records [t, v]; strings are sequences of   *)
(* one-character strings so that the regular expression of fixID and the   *)
(* hex conversion of ObjectID can be computed character by character.      *)
(***************************************************************************)
EXTENDS Integers, Sequences, FiniteSets, TLC

VARIABLES
    db,         \* "none", "open" (a DB handle was delivered), "closed"
    coll,       \* TRUE once a Collection handle was delivered
    store,      \* the documents of the collection, in natural order
    gen,        \* how many identifiers the driver has generated
    idx,        \* the ensureIndex requests issued, in order, each with its status
    gc,         \* every invocation of the latest getCollection call's callback
    lastWrite,  \* the latest save, update or delete that completed without error
    ev          \* the latest call: its arguments, the driver request, the outcome

vars == <<db, coll, store, gen, idx, gc, lastWrite, ev>>

(***************************************************************************)
(* Bounds of the model.                                                    *)
(***************************************************************************)
\* most documents the collection holds
MaxDocs == 2
\* most identifiers the driver generates
MaxGen == 1

(***************************************************************************)
(* Program constants.                                                      *)
(***************************************************************************)
\* /^[0-9A-F]{24}$/i
IdLen == 24
\* options.port || 27017
DefaultPort == 27017

(***************************************************************************)
(* JavaScript values.                                                      *)
(***************************************************************************)
Undefined == [t |-> "undefined", v |-> <<>>]
Null == [t |-> "null", v |-> <<>>]
Str(s) == [t |-> "string", v |-> s]
Num(n) == [t |-> "number", v |-> n]
Bool(b) == [t |-> "boolean", v |-> b]
Fn(name) == [t |-> "function", v |-> name]
Oid(bytes) == [t |-> "ObjectID", v |-> bytes]
Arr(s) == [t |-> "array", v |-> s]
Err(m) == [t |-> "error", v |-> m]
Obj(f) == [t |-> "object", v |-> f]
EmptyObj == Obj([f \in {} |-> Undefined])

\* typeof x
TypeOf(x) ==
    CASE x.t \in {"undefined", "string", "number", "boolean", "function"} -> x.t
      [] OTHER -> "object"

\* the own fields of a value
Fields(o) == IF o.t = "object" THEN DOMAIN o.v ELSE {}

\* o.f
Get(o, f) == IF f \in Fields(o) THEN o.v[f] ELSE Undefined

\* o.f = x
Set(o, f, x) == Obj([g \in Fields(o) \cup {f} |-> IF g = f THEN x ELSE o.v[g]])

\* x || y, if (x)
Truthy(x) ==
    CASE x.t \in {"undefined", "null"} -> FALSE
      [] x.t = "string" -> x.v /= <<>>
      [] x.t = "number" -> x.v /= 0
      [] x.t = "boolean" -> x.v
      [] OTHER -> TRUE

\* arguments[i - 1], undefined past arguments.length
Arg(args, i) == IF i <= Len(args) THEN args[i] ELSE Undefined

(***************************************************************************)
(* Identifier coercion.                                                    *)
(***************************************************************************)
LowerDigits == <<"0", "1", "2", "3", "4", "5", "6", "7", "8", "9", "a", "b", "c", "d", "e", "f">>
UpperDigits == <<"0", "1", "2", "3", "4", "5", "6", "7", "8", "9", "A", "B", "C", "D", "E", "F">>

\* [0-9A-F] under the i flag
IsHexChar(c) == \E d \in 1..Len(LowerDigits) : c = LowerDigits[d] \/ c = UpperDigits[d]

\* the value of one hex digit
HexVal(c) == (CHOOSE d \in 1..Len(LowerDigits) : c = LowerDigits[d] \/ c = UpperDigits[d]) - 1

\* /^[0-9A-F]{24}$/i.test(s)
IsHexId(s) == Len(s) = IdLen /\ \A i \in 1..Len(s) : IsHexChar(s[i])

\* mongo.ObjectID.createFromHexString(s): one byte per pair of hex digits
createFromHexString(s) ==
    Oid([i \in 1..(Len(s) \div 2) |-> Len(LowerDigits) * HexVal(s[2 * i - 1]) + HexVal(s[2 * i])])

\* ObjectID.toHexString(): two lower-case hex digits per byte
toHexString(oid) ==
    [i \in 1..(2 * Len(oid.v)) |->
        LET b == oid.v[(i + 1) \div 2]
        IN  IF i % 2 = 1 THEN LowerDigits[(b \div Len(LowerDigits)) + 1]
                         ELSE LowerDigits[(b % Len(LowerDigits)) + 1]]

\* a plausible slip: the characters are tested but not the length (/^[0-9A-F]+$/i)
fixID_anyLength(query) ==
    IF TypeOf(Get(query, "_id")) = "string" /\ Get(query, "_id").v /= <<>>
       /\ \A i \in 1..Len(Get(query, "_id").v) : IsHexChar(Get(query, "_id").v[i])
    THEN Set(query, "_id", createFromHexString(Get(query, "_id").v))
    ELSE query

\* function fixID(query): the object as it is after the call
fixID(query) ==
    IF TypeOf(Get(query, "_id")) = "string" /\ IsHexId(Get(query, "_id").v)
    THEN Set(query, "_id", createFromHexString(Get(query, "_id").v))
    ELSE query

(***************************************************************************)
(* The handlers up to the request they hand to the driver.  Each yields    *)
(* req, the arguments of the driver call in order, and cb, the value of    *)
(* the handler's variable `callback` at that point.                        *)
(***************************************************************************)
Handed(req, cb) == [req |-> req, cb |-> cb]

\* exports.connect: new mongo.Server(host, port, options),
\* new mongo.Db(options.name, mongoServer, options), dbConnector.open(...)
connect(args) ==
    LET callback == Arg(args, 2)
        \* `callback == options;` compares, it assigns nothing
        options == IF Len(args) = 1 THEN EmptyObj ELSE Arg(args, 1)
        host == IF Truthy(Get(options, "host")) THEN Get(options, "host") ELSE Str(<<"l", "o", "c", "a", "l", "h", "o", "s", "t">>)
        port == IF Truthy(Get(options, "port")) THEN Get(options, "port") ELSE Num(DefaultPort)
        opts == Set(Set(options, "strict", Bool(FALSE)), "safe", Bool(TRUE))
    IN  Handed(<<host, port, opts, Get(opts, "name")>>, callback)

\* a getCollection that resolves the collection and leaves the index list aside
getCollection_withoutIndexes(args) ==
    LET name == Arg(args, 1)
        callback == IF Len(args) = 2 THEN Arg(args, 2) ELSE Arg(args, 3)
    IN  Handed(<<name, Null>>, callback)

\* DB.prototype.getCollection: this._db.collection(name, function(err, coll) ...)
getCollection(args) ==
    LET name == Arg(args, 1)
        callback == IF Len(args) = 2 THEN Arg(args, 2) ELSE Arg(args, 3)
        indexes == IF Len(args) = 2 THEN Null ELSE Arg(args, 2)
    IN  Handed(<<name, indexes>>, callback)

\* DB.prototype.close
close(args) ==
    IF Len(args) = 1
    THEN Handed(<<Arg(args, 1)>>, Arg(args, 2))
    ELSE Handed(<<Arg(args, 1), Arg(args, 2)>>, Arg(args, 2))

\* the older module's find: with a field list the options are left out of the request
find_dropsOptions(args) ==
    LET n == Len(args)
        query == Arg(args, 1)
        callback == CASE n = 2 -> Arg(args, 2) [] n = 3 -> Arg(args, 3) [] OTHER -> Arg(args, 4)
        options == CASE n = 2 -> EmptyObj [] n = 3 -> Arg(args, 2) [] OTHER -> Arg(args, 3)
        fields == IF n \in {2, 3} THEN Null ELSE Arg(args, 2)
    IN  IF fields = Null
        THEN Handed(<<fixID(query), options, callback>>, callback)
        ELSE Handed(<<fixID(query), fields, callback>>, callback)

\* Collection.prototype.find; toArray(callback) is the last element of req
find(args) ==
    LET n == Len(args)
        query == Arg(args, 1)
        callback == CASE n = 2 -> Arg(args, 2) [] n = 3 -> Arg(args, 3) [] OTHER -> Arg(args, 4)
        options == CASE n = 2 -> EmptyObj [] n = 3 -> Arg(args, 2) [] OTHER -> Arg(args, 3)
        fields == IF n \in {2, 3} THEN Null ELSE Arg(args, 2)
    IN  IF fields = Null
        THEN Handed(<<fixID(query), options, callback>>, callback)
        ELSE Handed(<<fixID(query), fields, options, callback>>, callback)

\* the older module's findOne: the query is handed on without fixID
findOne_unfixed(args) ==
    LET n == Len(args)
        callback == CASE n = 2 -> Arg(args, 2) [] n = 3 -> Arg(args, 3) [] OTHER -> Arg(args, 4)
        options == CASE n = 2 -> EmptyObj [] n = 3 -> Arg(args, 2) [] OTHER -> Arg(args, 3)
        fields == IF n \in {2, 3} THEN Null ELSE Arg(args, 2)
    IN  IF fields = Null
        THEN Handed(<<Arg(args, 1), options, callback>>, callback)
        ELSE Handed(<<Arg(args, 1), fields, options, callback>>, callback)

\* Collection.prototype.findOne
findOne(args) ==
    LET n == Len(args)
        query == Arg(args, 1)
        callback == CASE n = 2 -> Arg(args, 2) [] n = 3 -> Arg(args, 3) [] OTHER -> Arg(args, 4)
        options == CASE n = 2 -> EmptyObj [] n = 3 -> Arg(args, 2) [] OTHER -> Arg(args, 3)
        fields == IF n \in {2, 3} THEN Null ELSE Arg(args, 2)
    IN  IF fields = Null
        THEN Handed(<<fixID(query), options, callback>>, callback)
        ELSE Handed(<<fixID(query), fields, options, callback>>, callback)

\* a plausible slip: the caller's options are handed on as they came
save_unforced(args) ==
    LET callback == IF Len(args) = 2 THEN Arg(args, 2) ELSE Arg(args, 3)
        options == IF Len(args) = 2 THEN EmptyObj ELSE Arg(args, 2)
    IN  Handed(<<fixID(Arg(args, 1)), options, callback>>, callback)

\* Collection.prototype.save
save(args) ==
    LET record == Arg(args, 1)
        callback == IF Len(args) = 2 THEN Arg(args, 2) ELSE Arg(args, 3)
        options == IF Len(args) = 2 THEN EmptyObj ELSE Arg(args, 2)
    IN  Handed(<<fixID(record), Set(options, "safe", Bool(TRUE)), callback>>, callback)

\* Collection.prototype.update: fixID(record) only, criteria as it came
update(args) ==
    LET criteria == Arg(args, 1)
        record == Arg(args, 2)
        callback == IF Len(args) = 3 THEN Arg(args, 3) ELSE Arg(args, 4)
        options == IF Len(args) = 3 THEN EmptyObj ELSE Arg(args, 3)
    IN  Handed(<<criteria, fixID(record), Set(options, "safe", Bool(TRUE)), callback>>, callback)

\* a plausible slip: the query is handed on without fixID
delete_unfixed(args) ==
    LET callback == IF Len(args) = 2 THEN Arg(args, 2) ELSE Arg(args, 3)
        options == IF Len(args) = 2 THEN EmptyObj ELSE Arg(args, 2)
    IN  Handed(<<Arg(args, 1), Set(options, "safe", Bool(TRUE)), callback>>, callback)

\* Collection.prototype.delete: this._coll.remove(query, options, callback)
delete(args) ==
    LET query == Arg(args, 1)
        callback == IF Len(args) = 2 THEN Arg(args, 2) ELSE Arg(args, 3)
        options == IF Len(args) = 2 THEN EmptyObj ELSE Arg(args, 2)
    IN  Handed(<<fixID(query), Set(options, "safe", Bool(TRUE)), callback>>, callback)

\* Collection.prototype.count: with one argument `callback = options` copies undefined
count(args) ==
    LET query == Arg(args, 1)
        callback == IF Len(args) \in {1, 2} THEN Arg(args, 2) ELSE Arg(args, 3)
        options == IF Len(args) \in {1, 2} THEN EmptyObj ELSE Arg(args, 2)
    IN  Handed(<<fixID(query), Set(options, "safe", Bool(TRUE)), callback>>, callback)

(***************************************************************************)
(* The driver and the store behind it, as the layer's documentation        *)
(* describes them: documents are matched field by field, save is an        *)
(* upsert by _id, update replaces the first match, remove removes every    *)
(* match.                                                                  *)
(***************************************************************************)
\* the n-th identifier the driver generates
GenOid(n) == Oid([i \in 1..(IdLen \div 2) |-> IF i = 1 THEN 255 - n ELSE 0])

\* selector matching: every field of the query is in the document with an equal value
Matches(doc, query) ==
    \A f \in Fields(query) : f \in Fields(doc) /\ doc.v[f] = query.v[f]

Matching(s, query) ==
    LET Test(d) == Matches(d, query)
    IN  SelectSeq(s, Test)

NotMatching(s, query) ==
    LET Test(d) == ~Matches(d, query)
    IN  SelectSeq(s, Test)

FirstMatch(s, query) == CHOOSE i \in 1..Len(s) : Matches(s[i], query) /\ \A j \in 1..(i - 1) : ~Matches(s[j], query)

Done(s, g, err, res) == [store |-> s, gen |-> g, err |-> err, res |-> res]

\* a field list keeps _id and the fields it names; no field list keeps the document
Project(doc, fields) ==
    IF fields = Null
    THEN doc
    ELSE Obj([f \in Fields(doc) \cap ({"_id"} \cup {fields.v[k] : k \in 1..Len(fields.v)}) |-> doc.v[f]])

\* collection.find(query, [fields,] options).toArray
DriverFind(s, g, query, fields) ==
    Done(s, g, Null, Arr([k \in 1..Len(Matching(s, query)) |-> Project(Matching(s, query)[k], fields)]))

\* collection.findOne(query, [fields,] options)
DriverFindOne(s, g, query, fields) ==
    Done(s, g, Null, IF Matching(s, query) = <<>> THEN Null ELSE Project(Head(Matching(s, query)), fields))

\* collection.save(record, ...): insert with a generated _id, or upsert by _id
DriverSave(s, g, record) ==
    IF "_id" \notin Fields(record)
    THEN Done(Append(s, Set(record, "_id", GenOid(g))), g + 1, Null, Set(record, "_id", GenOid(g)))
    ELSE IF \E i \in 1..Len(s) : Get(s[i], "_id") = Get(record, "_id")
         THEN Done([i \in 1..Len(s) |-> IF Get(s[i], "_id") = Get(record, "_id") THEN record ELSE s[i]],
                   g, Null, Num(1))
         ELSE Done(Append(s, record), g, Null, record)

\* collection.update(criteria, record, ...): the first match is replaced in full and
\* keeps its _id; a record carrying another _id is refused by the store
DriverUpdate(s, g, criteria, record) ==
    IF Matching(s, criteria) = <<>>
    THEN Done(s, g, Null, Num(0))
    ELSE LET i == FirstMatch(s, criteria)
         IN  IF "_id" \in Fields(record) /\ Get(record, "_id") /= Get(s[i], "_id")
             THEN Done(s, g, Err("cannot change _id of a document"), Undefined)
             ELSE Done([s EXCEPT ![i] = Set(record, "_id", Get(s[i], "_id"))], g, Null, Num(1))

\* collection.remove(query, ...)
DriverRemove(s, g, query) ==
    Done(NotMatching(s, query), g, Null, Num(Len(Matching(s, query))))

\* collection.count(query, ...)
DriverCount(s, g, query) == Done(s, g, Null, Num(Len(Matching(s, query))))

\* a request the driver could not carry out: nothing is written
DriverFail(s, g) == Done(s, g, Err("driver error"), Undefined)

(***************************************************************************)
(* Callback invocations.                                                   *)
(***************************************************************************)
NoOut == [kind |-> "none", to |-> Undefined, err |-> Undefined, res |-> Undefined]
Pending == [kind |-> "pending", to |-> Undefined, err |-> Undefined, res |-> Undefined]

\* cb(err, res); calling what is not a function throws a TypeError
Invoke(cb, err, res) ==
    IF TypeOf(cb) = "function"
    THEN [kind |-> "called", to |-> cb, err |-> err, res |-> res]
    ELSE [kind |-> "thrown", to |-> cb, err |-> Err("TypeError"), res |-> Undefined]

DBHandle == [t |-> "DB", v |-> <<>>]
CollectionHandle(name) == [t |-> "Collection", v |-> name.v]

(***************************************************************************)
(* The calls the model makes.                                              *)
(***************************************************************************)
CB == Fn("callback")

HexLower == [i \in 1..IdLen |-> LowerDigits[((i - 1) % Len(LowerDigits)) + 1]]
HexUpper == [i \in 1..IdLen |-> UpperDigits[((i - 1) % Len(UpperDigits)) + 1]]
HexMixed == [i \in 1..IdLen |-> IF i % 2 = 0 THEN HexUpper[i] ELSE HexLower[i]]
HexShort == SubSeq(HexLower, 1, IdLen - 1)
HexLong == Append(HexLower, "0")
NonHex == [HexLower EXCEPT ![IdLen] = "g"]

Pvorb == Str(<<"p", "v", "o", "r", "b">>)
Other == Str(<<"n", "f">>)

WithId(x) == Obj([f \in {"_id"} |-> x])
Named(n) == Obj([f \in {"name"} |-> n])
Doc(x, n) == Obj([f \in {"_id", "name"} |-> IF f = "_id" THEN x ELSE n])
Unsafe == Obj([f \in {"safe"} |-> Bool(FALSE)])
NameOnly == Arr(<<"name">>)
IdOnly == Arr(<<"_id">>)

IdValues ==
    {Str(HexLower), Str(HexUpper), Str(HexMixed), Str(HexShort), Str(HexLong), Str(NonHex),
     Num(7), createFromHexString(HexLower), GenOid(0), Str(toHexString(GenOid(0)))}

DbName ==
    Str(<<"p", "e", "r", "s", "i", "s", "t", "e", "n", "c", "e", "_", "t", "e", "s", "t">>)
DbNamed == Obj([f \in {"name"} |-> DbName])

ConnectCalls ==
    {<<CB>>, <<EmptyObj, CB>>, <<DbNamed, CB>>,
     <<Set(Set(DbNamed, "host", Str(<<"h">>)), "port", Num(1)), CB>>,
     <<Set(Set(DbNamed, "safe", Bool(FALSE)), "strict", Bool(TRUE)), CB>>}

CollName == Str(<<"a", "u", "t", "h", "o", "r">>)
IndexId == Str(<<"_", "i", "d">>)
IndexCreated == Obj([f \in {"created"} |-> Num(-1)])

GetCollectionCalls ==
    {<<CollName, CB>>, <<CollName, Null, CB>>, <<CollName, Arr(<<>>), CB>>,
     <<CollName, Arr(<<IndexId>>), CB>>, <<CollName, Arr(<<IndexId, IndexCreated>>), CB>>}

CloseCalls == {<<>>, <<CB>>, <<Bool(TRUE), CB>>}

\* the calls of the whole life cycle: every handler in every argument shape
FindCalls ==
    {<<WithId(Str(HexUpper)), CB>>, <<Named(Pvorb), Unsafe, CB>>, <<Named(Pvorb), IdOnly, Unsafe, CB>>,
     <<Named(Pvorb), Null, Unsafe, CB>>}

FindOneCalls ==
    {<<q, CB>> : q \in {WithId(GenOid(0)), WithId(Str(toHexString(GenOid(0))))}}
    \cup {<<Named(Pvorb), Unsafe, CB>>, <<Named(Pvorb), NameOnly, Unsafe, CB>>}

SaveCalls == {<<Named(Pvorb), CB>>, <<Doc(Str(HexLower), Pvorb), Unsafe, CB>>}

UpdateCalls ==
    {<<WithId(Str(HexUpper)), Named(Other), CB>>,
     <<WithId(createFromHexString(HexLower)), Doc(Str(HexMixed), Other), Unsafe, CB>>}

DeleteCalls == {<<Named(Pvorb), CB>>, <<WithId(Str(HexLower)), Unsafe, CB>>}

CountCalls == {<<CB>>, <<Named(Pvorb), CB>>, <<WithId(Str(HexLower)), CB>>, <<Named(Pvorb), Unsafe, CB>>}

\* the calls made through one Collection handle: every kind of _id in every place
QWide == {EmptyObj, Named(Pvorb)} \cup {WithId(x) : x \in IdValues}

FindWide == {<<q, CB>> : q \in QWide} \cup FindCalls

FindOneWide == {<<WithId(Str(NonHex)), CB>>} \cup FindOneCalls

SaveWide == {<<Doc(Str(NonHex), Pvorb), CB>>} \cup SaveCalls

UpdateWide == {<<WithId(Str(NonHex)), Named(Other), CB>>} \cup UpdateCalls

DeleteWide == {<<WithId(Num(7)), CB>>, <<WithId(Str(HexLong)), CB>>} \cup DeleteCalls

CountWide == {<<WithId(Num(7)), CB>>, <<WithId(Str(HexLong)), CB>>} \cup CountCalls

(***************************************************************************)
(* State.                                                                  *)
(***************************************************************************)
NoWrite == [op |-> "none", args |-> <<>>, res |-> Undefined]

\* derr is what the driver reported for the request: null, or its error;
\* nreq counts the requests the call has handed to the driver: the handler hands one
Issued(op, args, h) ==
    [op |-> op, args |-> args, req |-> h.req, cb |-> h.cb, derr |-> Undefined, nreq |-> 1, out |-> Pending]

Init ==
    /\ db = "none"
    /\ coll = FALSE
    /\ store = <<>>
    /\ gen = 0
    /\ idx = <<>>
    /\ gc = <<>>
    /\ lastWrite = NoWrite
    /\ ev = [op |-> "none", args |-> <<>>, req |-> <<>>, cb |-> Undefined, derr |-> Undefined, nreq |-> 0,
             out |-> NoOut]

\* the caller issues a call once the previous one has come back
Idle == ev.out.kind /= "pending"

Waiting(op) == ev.op = op /\ ev.out.kind = "pending"

\* the callback the driver was handed: the last argument of the request
DriverCb == ev.req[Len(ev.req)]

(***************************************************************************)
(* connect, getCollection, close.                                          *)
(***************************************************************************)
Connect ==
    /\ Idle /\ db = "none"
    /\ \E args \in ConnectCalls : ev' = Issued("connect", args, connect(args))
    /\ UNCHANGED <<db, coll, store, gen, idx, gc, lastWrite>>

\* dbConnector.open's callback: the driver answers (null, conn) or (err), whatever
\* options it was given
OpenDone ==
    /\ Waiting("connect")
    /\ \E ok \in BOOLEAN :
        /\ LET out == IF ok THEN Invoke(ev.cb, Null, DBHandle)
                            ELSE Invoke(ev.cb, Err("driver error"), Undefined)
           IN  /\ ev' = [ev EXCEPT !.out = out, !.derr = IF ok THEN Null ELSE Err("driver error")]
               /\ db' = IF ok /\ out.kind = "called" THEN "open" ELSE db
    /\ UNCHANGED <<coll, store, gen, idx, gc, lastWrite>>

GetCollection ==
    /\ Idle /\ db = "open" /\ ~coll
    /\ \E args \in GetCollectionCalls : ev' = Issued("getCollection", args, getCollection(args))
    /\ gc' = <<>>
    /\ UNCHANGED <<db, coll, store, gen, idx, lastWrite>>

\* a plausible slip: only the first entry is ensured
ensureIndexes_first(indexes) ==
    IF indexes = Null \/ Len(indexes.v) = 0
    THEN <<>>
    ELSE <<[index |-> indexes.v[1], status |-> "pending"]>>

\* the ensureIndex requests of indexes.forEach, in list order
ensureIndexes(indexes) ==
    IF indexes = Null \/ Len(indexes.v) = 0
    THEN <<>>
    ELSE [i \in 1..Len(indexes.v) |-> [index |-> indexes.v[i], status |-> "pending"]]

\* the callback handed to this._db.collection
CollectionDone ==
    /\ Waiting("getCollection")
    /\ \E ok \in BOOLEAN :
        LET out == IF ok THEN Invoke(ev.cb, Null, CollectionHandle(ev.req[1]))
                         ELSE Invoke(ev.cb, Err("driver error"), Undefined)
        IN  /\ ev' = [ev EXCEPT !.out = out, !.derr = IF ok THEN Null ELSE Err("driver error"),
                                 !.nreq = IF ok THEN @ + Len(ensureIndexes(ev.req[2])) ELSE @]
            /\ gc' = Append(gc, out)
            /\ idx' = IF ok THEN idx \o ensureIndexes(ev.req[2]) ELSE idx
            /\ coll' = IF ok /\ out.kind = "called" THEN TRUE ELSE coll
    /\ UNCHANGED <<db, store, gen, lastWrite>>

\* what a callback that passed the index error on would do
ensureIndex_forward(cbs, err) == IF err = Null THEN cbs ELSE Append(cbs, Invoke(CB, err, Undefined))

\* function() {} handed to coll.ensureIndex: whatever the outcome, nothing is called
ensureIndex_callback(cbs, err) == cbs

\* one index build ends, in any order, well or badly
EnsureIndexDone ==
    /\ \E i \in 1..Len(idx), ok \in BOOLEAN :
        /\ idx[i].status = "pending"
        /\ idx' = [idx EXCEPT ![i].status = IF ok THEN "ok" ELSE "failed"]
        /\ gc' = ensureIndex_callback(gc, IF ok THEN Null ELSE Err("index error"))
    /\ UNCHANGED <<db, coll, store, gen, lastWrite, ev>>

Close ==
    /\ Idle /\ db = "open"
    /\ \E args \in CloseCalls : ev' = Issued("close", args, close(args))
    /\ UNCHANGED <<db, coll, store, gen, idx, gc, lastWrite>>

\* Db.close(forceClose, callback): a function in first place is the callback;
\* a callback is called only when there is one
CloseDone ==
    /\ Waiting("close")
    /\ LET cb == IF TypeOf(Arg(ev.req, 1)) = "function" THEN Arg(ev.req, 1) ELSE Arg(ev.req, 2)
       IN  ev' = [ev EXCEPT !.out = IF TypeOf(cb) = "function" THEN Invoke(cb, Null, Undefined) ELSE NoOut,
                           !.derr = Null]
    /\ db' = "closed"
    /\ UNCHANGED <<coll, store, gen, idx, gc, lastWrite>>

(***************************************************************************)
(* find, findOne, save, update, delete, count: the handler hands the       *)
(* request to the driver; the driver later carries it out on the store     *)
(* and calls the callback it was handed.                                   *)
(***************************************************************************)
Ready == Idle /\ db = "open" /\ coll

\* the driver is done: the store is written and the handed callback called
Completed(r) ==
    /\ ev' = [ev EXCEPT !.out = Invoke(DriverCb, r.err, r.res), !.derr = r.err]
    /\ store' = r.store
    /\ gen' = r.gen
    /\ lastWrite' = IF ev.op \in {"save", "update", "delete"} /\ r.err = Null
                    THEN [op |-> ev.op, args |-> ev.args, res |-> r.res]
                    ELSE lastWrite
    /\ UNCHANGED <<db, coll, idx, gc>>

Find(calls) ==
    /\ Ready
    /\ \E args \in calls : ev' = Issued("find", args, find(args))
    /\ UNCHANGED <<db, coll, store, gen, idx, gc, lastWrite>>

FindDone ==
    /\ Waiting("find")
    /\ \E ok \in BOOLEAN :
        Completed(IF ok THEN DriverFind(store, gen, ev.req[1], IF Len(ev.req) = 4 THEN ev.req[2] ELSE Null)
                        ELSE DriverFail(store, gen))

FindOne(calls) ==
    /\ Ready
    /\ \E args \in calls : ev' = Issued("findOne", args, findOne(args))
    /\ UNCHANGED <<db, coll, store, gen, idx, gc, lastWrite>>

FindOneDone ==
    /\ Waiting("findOne")
    /\ \E ok \in BOOLEAN :
        Completed(IF ok THEN DriverFindOne(store, gen, ev.req[1], IF Len(ev.req) = 4 THEN ev.req[2] ELSE Null)
                        ELSE DriverFail(store, gen))

\* the model saves only what the bounded store and identifier supply have room for
Room(record) ==
    IF "_id" \notin Fields(record)
    THEN Len(store) < MaxDocs /\ gen < MaxGen
    ELSE Len(store) < MaxDocs \/ \E i \in 1..Len(store) : Get(store[i], "_id") = Get(record, "_id")

Save(calls) ==
    /\ Ready
    /\ \E args \in calls :
        /\ Room(save(args).req[1])
        /\ ev' = Issued("save", args, save(args))
    /\ UNCHANGED <<db, coll, store, gen, idx, gc, lastWrite>>

SaveDone ==
    /\ Waiting("save")
    /\ \E ok \in BOOLEAN :
        Completed(IF ok THEN DriverSave(store, gen, ev.req[1]) ELSE DriverFail(store, gen))

Update(calls) ==
    /\ Ready
    /\ \E args \in calls : ev' = Issued("update", args, update(args))
    /\ UNCHANGED <<db, coll, store, gen, idx, gc, lastWrite>>

UpdateDone ==
    /\ Waiting("update")
    /\ \E ok \in BOOLEAN :
        Completed(IF ok THEN DriverUpdate(store, gen, ev.req[1], ev.req[2]) ELSE DriverFail(store, gen))

Delete(calls) ==
    /\ Ready
    /\ \E args \in calls : ev' = Issued("delete", args, delete(args))
    /\ UNCHANGED <<db, coll, store, gen, idx, gc, lastWrite>>

DeleteDone ==
    /\ Waiting("delete")
    /\ \E ok \in BOOLEAN :
        Completed(IF ok THEN DriverRemove(store, gen, ev.req[1]) ELSE DriverFail(store, gen))

Count(calls) ==
    /\ Ready
    /\ \E args \in calls : ev' = Issued("count", args, count(args))
    /\ UNCHANGED <<db, coll, store, gen, idx, gc, lastWrite>>

CountDone ==
    /\ Waiting("count")
    /\ \E ok \in BOOLEAN :
        Completed(IF ok THEN DriverCount(store, gen, ev.req[1]) ELSE DriverFail(store, gen))

\* the whole life cycle
Next ==
    \/ Connect \/ OpenDone
    \/ GetCollection \/ CollectionDone \/ EnsureIndexDone
    \/ Close \/ CloseDone
    \/ Find(FindCalls) \/ FindDone
    \/ FindOne(FindOneCalls) \/ FindOneDone
    \/ Save(SaveCalls) \/ SaveDone
    \/ Update(UpdateCalls) \/ UpdateDone
    \/ Delete(DeleteCalls) \/ DeleteDone
    \/ Count(CountCalls) \/ CountDone

Spec == Init /\ [][Next]_vars

\* one Collection handle, as getCollection(name, callback) delivers it
InitColl ==
    /\ db = "open"
    /\ coll = TRUE
    /\ store = <<>>
    /\ gen = 0
    /\ idx = <<>>
    /\ gc = <<Invoke(CB, Null, CollectionHandle(CollName))>>
    /\ lastWrite = NoWrite
    /\ ev = [Issued("getCollection", <<CollName, CB>>, getCollection(<<CollName, CB>>))
                EXCEPT !.out = Invoke(CB, Null, CollectionHandle(CollName)), !.derr = Null]

NextColl ==
    \/ Find(FindWide) \/ FindDone
    \/ FindOne(FindOneWide) \/ FindOneDone
    \/ Save(SaveWide) \/ SaveDone
    \/ Update(UpdateWide) \/ UpdateDone
    \/ Delete(DeleteWide) \/ DeleteDone
    \/ Count(CountWide) \/ CountDone

SpecColl == InitColl /\ [][NextColl]_vars

\* the state SpecColl starts in is a state of the whole life cycle
InitCollNotReached == ~(InitColl)

(***************************************************************************)
(* Properties.                                                             *)
(***************************************************************************)
CrudOps == {"find", "findOne", "save", "update", "delete", "count"}

\* the argument places that hold a query, criteria or record; the same places of the request
Places(op, args) == (IF op = "update" THEN {1, 2} ELSE {1}) \cap (1..Len(args))

\* a string of exactly 24 hexadecimal characters
IsHexIdString(x) == x.t = "string" /\ IsHexId(x.v)

Returned == ev.out.kind \notin {"none", "pending"}

LastArg == ev.args[Len(ev.args)]

\* C1: in every Collection operation and every place (query, criteria, record), an _id
\* the caller gave as a 24-character hex string reaches the store as the ObjectID built
\* from it, never as the string.
C1_HexIdReachesStoreAsObjectID ==
    ev.op \in CrudOps =>
        \A k \in Places(ev.op, ev.args) :
            IsHexIdString(Get(ev.args[k], "_id")) =>
                Get(ev.req[k], "_id") = createFromHexString(Get(ev.args[k], "_id").v)

\* C2: the object handed to the store differs from the caller's only in _id, and only when
\* that _id is a string of exactly 24 hex characters of any case, which then became the
\* ObjectID; every other object is handed on as it came.
C2_OnlyHexIdStringsAreCoerced ==
    ev.op \in CrudOps =>
        \A k \in Places(ev.op, ev.args) :
            /\ Fields(ev.req[k]) = Fields(ev.args[k])
            /\ \A f \in Fields(ev.args[k]) \ {"_id"} : ev.req[k].v[f] = ev.args[k].v[f]
            /\ ~IsHexIdString(Get(ev.args[k], "_id")) => ev.req[k] = ev.args[k]
            /\ ev.req[k] /= ev.args[k] =>
                /\ IsHexIdString(Get(ev.args[k], "_id"))
                /\ Get(ev.req[k], "_id") = createFromHexString(Get(ev.args[k], "_id").v)
                /\ TypeOf(Get(ev.req[k], "_id")) = "object"

\* C2 witness: an _id of 25 hex characters, and one with a character that is no hex digit,
\* were handed to the store as they came, next to a name
C2_Witness ==
    /\ ev.op = "save" /\ Returned
    /\ ev.args[1] = Doc(Str(NonHex), Pvorb)
    /\ ev.req[1] = ev.args[1]
    /\ lastWrite.op = "delete" /\ lastWrite.args[1] = WithId(Str(HexLong))

\* the index list a getCollection call was given, empty when omitted or null
IndexList(args) == IF Len(args) = 3 /\ args[2].t = "array" THEN args[2].v ELSE <<>>

\* C3 as stated: a getCollection call with a non-empty index list that has come back has
\* invoked its callback once, with a null error and a Collection handle.
C3_NonEmptyIndexListAlwaysYieldsHandle ==
    (ev.op = "getCollection" /\ IndexList(ev.args) /= <<>> /\ Returned) =>
        /\ Len(gc) = 1
        /\ gc[1].kind = "called" /\ gc[1].to = LastArg
        /\ gc[1].err = Null /\ gc[1].res.t = "Collection"

\* C3 amended: once the collection has resolved and the index-ensure requests are issued,
\* the getCollection callback has been invoked exactly once, with a null error and a
\* Collection handle, whatever the index builds do (pending, done, failed, in any order);
\* no callback invocation ever carries an index-build error.
C3_HandleRegardlessOfIndexBuilds ==
    /\ idx /= <<>> =>
        /\ Len(gc) = 1
        /\ gc[1] = Invoke(CB, Null, CollectionHandle(CollName))
        /\ coll
    /\ \A i \in 1..Len(gc) : gc[i].err /= Err("index error")
    /\ ev.out.err /= Err("index error")
    /\ (ev.op = "getCollection" /\ Returned) => Len(gc) = 1

\* C3 witness: one index build failed, one never ended, and a later call came back
C3_Witness ==
    /\ Len(idx) = 2 /\ idx[1].status = "pending" /\ idx[2].status = "failed"
    /\ Len(gc) = 1 /\ gc[1].err = Null
    /\ ev.op = "save" /\ ev.out.kind = "called"

\* C4: for a getCollection call that resolved, the index-ensure requests issued are one
\* per entry of the index list, in list order; none when the list is omitted, null or empty.
C4_OneEnsureIndexPerEntry ==
    (ev.op = "getCollection" /\ Returned /\ ev.derr = Null) =>
        /\ Len(idx) = Len(IndexList(ev.args))
        /\ \A i \in 1..Len(idx) : idx[i].index = IndexList(ev.args)[i]

\* C4 witness: two entries, two requests in the order of the list
C4_Witness ==
    /\ ev.op = "getCollection" /\ Returned /\ ev.derr = Null
    /\ ev.args[2] = Arr(<<IndexId, IndexCreated>>)
    /\ Len(idx) = 2 /\ idx[1].index = IndexId /\ idx[2].index = IndexCreated

\* C5: connect with a single argument takes it as the callback: localhost and 27017 are
\* used and the outcome of opening the connection is delivered to that argument.
C5_SingleArgumentIsTheCallback ==
    (ev.op = "connect" /\ Len(ev.args) = 1 /\ Returned) =>
        /\ ev.req[1] = Str(<<"l", "o", "c", "a", "l", "h", "o", "s", "t">>)
        /\ ev.req[2] = Num(DefaultPort)
        /\ ev.out.kind = "called"
        /\ ev.out.to = ev.args[1]
        /\ ev.out.err = ev.derr

\* C6: whatever error the driver reports for a request is handed, unchanged and alone, to
\* the callback the caller gave to that operation; a failed connect or getCollection
\* produces no handle and a failed getCollection issues no index-ensure request.
C6_DriverErrorsReachTheCallersCallback ==
    (ev.op \in CrudOps \cup {"connect", "getCollection"} /\ Returned /\ ev.derr.t = "error") =>
        /\ ev.out.kind = "called"
        /\ ev.out.to = LastArg
        /\ ev.out.err = ev.derr
        /\ ev.out.res = Undefined
        /\ ev.op = "connect" => db /= "open"
        /\ ev.op = "getCollection" => ~coll /\ idx = <<>>

\* the options a write or count request carries
WriteOptions == IF ev.op = "update" THEN ev.req[3] ELSE ev.req[2]

\* the options the caller gave to a write or count, undefined when omitted
GivenOptions ==
    CASE ev.op = "update" -> IF Len(ev.args) = 4 THEN ev.args[3] ELSE Undefined
      [] ev.op = "count" -> IF Len(ev.args) = 3 THEN ev.args[2] ELSE Undefined
      [] OTHER -> IF Len(ev.args) = 3 THEN ev.args[2] ELSE Undefined

\* C7: the options connect hands to the driver have strict = false and safe = true, and
\* the options of every save, update, delete and count request have safe = true, whatever
\* the caller gave and also when the caller gave none; nothing else in them is changed.
C7_AcknowledgedWritesAlwaysOn ==
    /\ ev.op = "connect" =>
        /\ Get(ev.req[3], "strict") = Bool(FALSE)
        /\ Get(ev.req[3], "safe") = Bool(TRUE)
    /\ ev.op \in {"save", "update", "delete", "count"} =>
        /\ Get(WriteOptions, "safe") = Bool(TRUE)
        /\ Fields(WriteOptions) = Fields(GivenOptions) \cup {"safe"}

\* C7 witness: the caller of update asked for safe = false and the request carries safe = true
C7_Witness ==
    /\ ev.op = "update" /\ Returned
    /\ GivenOptions = Unsafe
    /\ Get(ev.req[3], "safe") = Bool(TRUE)

\* the _id a save without _id was given by the driver
SavedId == Get(lastWrite.res, "_id")

\* the latest write is a save of a record without _id, and findOne has come back for that
\* record's identifier, given natively or as its hex string
RoundTrip ==
    /\ lastWrite.op = "save" /\ "_id" \notin Fields(lastWrite.args[1])
    /\ ev.op = "findOne" /\ ev.out.kind = "called" /\ ev.out.err = Null
    /\ Len(ev.args) = 2
    /\ ev.args[1] \in {WithId(SavedId), WithId(Str(toHexString(SavedId)))}

\* C8: after a save of a record without _id, findOne by the returned identifier, native or
\* as its 24-character hex string, yields the saved record, if nothing was written since.
C8_SaveThenFindOneRoundTrip ==
    RoundTrip =>
        /\ ev.out.res = lastWrite.res
        /\ Fields(ev.out.res) = Fields(lastWrite.args[1]) \cup {"_id"}
        /\ \A f \in Fields(lastWrite.args[1]) : ev.out.res.v[f] = lastWrite.args[1].v[f]

\* C8 witness: the round trip by the hex string of the generated identifier, with another
\* document in the collection
C8_Witness ==
    /\ RoundTrip
    /\ ev.args[1] = WithId(Str(toHexString(SavedId)))
    /\ IsHexIdString(Get(ev.args[1], "_id"))
    /\ Len(store) = 2

\* C9: after a delete that came back without error, a count of the same query returns 0,
\* if nothing was written since.
C9_CountAfterDeleteIsZero ==
    (/\ lastWrite.op = "delete"
     /\ ev.op = "count" /\ ev.out.kind = "called" /\ ev.out.err = Null
     /\ ev.args[1] = lastWrite.args[1])
        => ev.out.res = Num(0)

\* C9 witness: the record was saved under a hex string, deleted under the same hex string
\* (one document removed), and the count of that hex string is 0
C9_Witness ==
    /\ lastWrite.op = "delete" /\ lastWrite.args[1] = WithId(Str(HexLower)) /\ lastWrite.res = Num(1)
    /\ ev.op = "count" /\ ev.out.kind = "called" /\ ev.out.err = Null
    /\ ev.args[1] = lastWrite.args[1]
    /\ ev.out.res = Num(0)
    /\ store /= <<>>

\* the query a count call was given: all documents when omitted
CountQuery == IF Len(ev.args) = 1 THEN EmptyObj ELSE ev.args[1]

\* C10: in every shape of a count call (callback; query, callback; query, options,
\* callback) the last argument is invoked with the number of documents matching the
\* query, all documents when the query is omitted.
C10_CountCallsItsLastArgument ==
    (ev.op = "count" /\ Returned) =>
        /\ ev.out.kind = "called"
        /\ ev.out.to = LastArg
        /\ ev.derr = Null => ev.out.res = Num(Len(Matching(store, fixID(CountQuery))))

\* C11 as stated: every call of a public operation, in every argument shape, hands
\* exactly one request to the driver, getCollection with a non-empty index list included.
C11_OneRequestPerCall ==
    ev.op /= "none" => ev.nreq = 1

\* C11 amended: every call hands exactly one request to the driver, except a getCollection
\* call whose collection resolved, which hands one more per entry of its index list.
C11_OneRequestPlusOnePerIndex ==
    ev.op /= "none" =>
        ev.nreq = 1 + (IF ev.op = "getCollection" /\ Returned /\ ev.derr = Null
                       THEN Len(IndexList(ev.args)) ELSE 0)

\* C11 witness: getCollection with two index entries has handed three requests to the driver
C11_Witness ==
    /\ ev.op = "getCollection" /\ Returned /\ ev.derr = Null
    /\ Len(IndexList(ev.args)) = 2
    /\ ev.nreq = 3 /\ Len(idx) = 2

\* C12: when the getCollection callback has received the Collection Handle, the
\* index-ensure of every entry of indexes has completed, and so it has for every
\* operation issued later through the handle.
C12_IndexesEnsuredBeforeHandle ==
    /\ (ev.op = "getCollection" /\ ev.out.kind = "called" /\ ev.derr = Null) =>
            \A i \in 1..Len(idx) : idx[i].status = "ok"
    /\ (ev.op \in CrudOps) => \A i \in 1..Len(idx) : idx[i].status = "ok"

\* the field list a find or findOne call asks for: the second of four arguments
FieldsGiven == IF Len(ev.args) = 4 THEN ev.args[2] ELSE Null

\* the options a find or findOne call asks for: empty with two arguments, the second of
\* three, the third of four
OptionsGiven ==
    CASE Len(ev.args) = 2 -> EmptyObj
      [] Len(ev.args) = 3 -> ev.args[2]
      [] OTHER -> ev.args[3]

\* what the store answers to the read as the caller wrote it
StoreAnswer ==
    IF ev.op = "find"
    THEN DriverFind(store, gen, fixID(ev.args[1]), FieldsGiven).res
    ELSE DriverFindOne(store, gen, fixID(ev.args[1]), FieldsGiven).res

\* C13: find and findOne hand the store the query, the options (empty with two arguments,
\* the second of three arguments, the third of four) and, with four arguments only, the
\* field list; the last argument is the callback, and once the store has answered it has
\* been called once with the store's error, or with null and the store's result, projected
\* only when a field list was given.
C13_FindArgumentNormalization ==
    (ev.op \in {"find", "findOne"}) =>
        /\ ev.req[1] = fixID(ev.args[1])
        /\ ev.req[Len(ev.req)] = LastArg
        /\ ev.req[Len(ev.req) - 1] = OptionsGiven
        /\ Len(ev.req) = IF FieldsGiven = Null THEN 3 ELSE 4
        /\ FieldsGiven /= Null => ev.req[2] = FieldsGiven
        /\ ev.out.kind \in {"pending", "called"}
        /\ Returned =>
            /\ ev.out.to = LastArg
            /\ ev.out.err = ev.derr
            /\ ev.out.res = IF ev.derr = Null THEN StoreAnswer ELSE Undefined

\* C13 witness: a four-argument find came back with the matching record cut down to the
\* fields asked for, and its options went to the store
C13_Witness ==
    /\ ev.op = "find" /\ Len(ev.args) = 4 /\ ev.args[2] = IdOnly
    /\ ev.req = <<Named(Pvorb), IdOnly, Unsafe, CB>>
    /\ ev.out.kind = "called" /\ ev.out.err = Null
    /\ ev.out.res.t = "array" /\ Len(ev.out.res.v) = 1
    /\ Fields(ev.out.res.v[1]) = {"_id"}
    /\ Fields(store[1]) = {"_id", "name"}

====
